---------------------------- MODULE Spec2Model ----------------------------
(***************************************************************************)
(* A model of convert_journal.py: the export is copied, the HEIC images    *)
(* of Resources/ are transcoded to PNG, every entry page is rewritten and  *)
(* given a map of the visits of its images' sidecars, and index.html is    *)
(* given one combined map whose legend filters the markers by day colour.  *)
(*                                                                         *)
(* Text (file names, img references, popup text) is a sequence of          *)
(* one-character strings, so that suffix tests, slicing and replacement    *)
(* are computed character by character as Python computes them.  Paths and *)
(* globbing follow the POSIX flavour of pathlib: matching and file lookup  *)
(* are case-sensitive.  Entry pages are the documents of the export        *)
(* layout: their images sit in div.gridItem elements (lines 231-240), not  *)
(* in text-less paragraphs.                                                *)
(***************************************************************************)
EXTENDS Integers, Sequences, FiniteSets, TLC

VARIABLES
    export,        \* SRC_DIR: [resources, entries, index], never written
    dstExists,     \* DST_DIR.exists()
    resources,     \* RESOURCES_DIR: file name -> content
    entries,       \* ENTRIES_DIR: file name -> page
    index,         \* DST_DIR / "index.html": a page, or NoPage
    pc,            \* the statement of __main__ that runs next
    run,           \* how many times the script has been started
    heicTodo,      \* files the glob of convert_heic_to_png still yields
    entryTodo,     \* files the glob of process_entries still yields
    idxQueue,      \* files sorted(...) of update_index_map_clickable still yields
    date_to_color, \* update_index_map_clickable: date prefix -> colour
    date_list,     \* update_index_map_clickable: date prefixes, first seen first
    all_visits,    \* update_index_map_clickable: the tagged visits
    log,           \* the warning lines printed in this run
    opened,        \* source images Image.open was called on in this run
    visitsOf,      \* process_entries: the final `visits` of each entry, this run
    indexedOf,     \* update_index_map_clickable: the visits each entry added
    markers,       \* browser: the script's `markers` array
    onMap,         \* browser: indices of the markers that are layers of the map
    activeColor,   \* browser: the script's `activeColor`
    view           \* browser: the bounds last given to map.fitBounds

vars == <<export, dstExists, resources, entries, index, pc, run, heicTodo,
          entryTodo, idxQueue, date_to_color, date_list, all_visits, log,
          opened, visitsOf, indexedOf, markers, onMap, activeColor, view>>

pyVars == <<export, dstExists, resources, entries, index, pc, run, heicTodo,
            entryTodo, idxQueue, date_to_color, date_list, all_visits, log,
            opened, visitsOf, indexedOf>>

jsVars == <<markers, onMap, activeColor, view>>

-----------------------------------------------------------------------------
(* Text *)

\* The characters of the model in ASCII order (ord() restricted to them).
Ascii ==
    <<"\"", "'", "(", ")", ".", "/", "0", "1", "2", "3", "4", "5", "6",
      "7", "8", "9", "<", ">",
      "A", "C", "E", "H", "I", "R", "_", "a", "b", "c", "e", "h", "i", "j",
      "l", "m", "n", "o", "p", "r", "s", "t">>

Ord(c) == CHOOSE i \in 1..Len(Ascii) : Ascii[i] = c

\* str.lower() on one character
LowerChar(c) ==
    CASE c = "A" -> "a" [] c = "C" -> "c" [] c = "E" -> "e" [] c = "H" -> "h"
      [] c = "I" -> "i" [] c = "R" -> "r" [] OTHER -> c

Lower(s) == [i \in 1..Len(s) |-> LowerChar(s[i])]

StartsWith(s, p) == Len(s) >= Len(p) /\ SubSeq(s, 1, Len(p)) = p

EndsWith(s, p) == Len(s) >= Len(p) /\ SubSeq(s, Len(s) - Len(p) + 1, Len(s)) = p

\* str.replace(old, new): every non-overlapping occurrence, left to right
RECURSIVE Replace(_, _, _)
Replace(s, old, new) ==
    IF Len(s) < Len(old) \/ Len(old) = 0 THEN s
    ELSE IF StartsWith(s, old)
         THEN new \o Replace(SubSeq(s, Len(old) + 1, Len(s)), old, new)
         ELSE <<Head(s)>> \o Replace(Tail(s), old, new)

\* s[:-n]
DropLast(s, n) == SubSeq(s, 1, Len(s) - n)

\* positions of character c in s
Positions(s, c) == {i \in 1..Len(s) : s[i] = c}

Max(S) == CHOOSE x \in S : \A y \in S : y <= x
Min(S) == CHOOSE x \in S : \A y \in S : x <= y

\* str.split(sep)[0]
SplitFirst(s, c) ==
    IF Positions(s, c) = {} THEN s ELSE SubSeq(s, 1, Min(Positions(s, c)) - 1)

\* the order of Python's str comparison
RECURSIVE StrLess(_, _)
StrLess(a, b) ==
    IF b = <<>> THEN FALSE
    ELSE IF a = <<>> THEN TRUE
    ELSE IF a[1] # b[1] THEN Ord(a[1]) < Ord(b[1])
    ELSE StrLess(Tail(a), Tail(b))

DotHeic == <<".", "h", "e", "i", "c">>
DotPng == <<".", "p", "n", "g">>
DotJson == <<".", "j", "s", "o", "n">>
DotHtml == <<".", "h", "t", "m", "l">>

-----------------------------------------------------------------------------
(* pathlib *)

\* PurePath.name: the last component of the path
PathName(p) ==
    IF Positions(p, "/") = {} THEN p
    ELSE SubSeq(p, Max(Positions(p, "/")) + 1, Len(p))

\* PurePath.suffix of a file name: from its last dot, unless the dot leads or ends it
PathSuffix(name) ==
    LET dots == Positions(name, ".")
    IN  IF dots = {} \/ Max(dots) = 1 \/ Max(dots) = Len(name) THEN <<>>
        ELSE SubSeq(name, Max(dots), Len(name))

\* PurePath.stem
PathStem(name) == DropLast(name, Len(PathSuffix(name)))

\* PurePath.with_suffix(suffix)
WithSuffix(name, suffix) == PathStem(name) \o suffix

\* Path.glob("*" + suffix) over the names of a directory
Glob(names, suffix) == {n \in names : EndsWith(n, suffix)}

\* sorted(paths) of one directory
RECURSIVE Sorted(_)
Sorted(S) ==
    IF S = {} THEN <<>>
    ELSE LET m == CHOOSE x \in S : \A y \in S \ {x} : StrLess(x, y)
         IN  <<m>> \o Sorted(S \ {m})

-----------------------------------------------------------------------------
(* Files *)

\* A visit of a sidecar's "visits" list: a JSON object; `keys` are the keys it has.
Visit(keys, lat, lon, name, city) ==
    [keys |-> keys, latitude |-> lat, longitude |-> lon, placeName |-> name,
     city |-> city, _color |-> "", _date |-> <<>>]

\* dict.get(key, default)
Get(d, key, default) == IF key \in d.keys THEN d[key] ELSE default

\* File contents.  An image has `data` (0: bytes no decoder accepts); a JSON
\* file has the document json.loads returns, or ok = FALSE when it raises.
HeicFile(d) == [kind |-> "heic", data |-> d, ok |-> FALSE, keys |-> {}, visits |-> <<>>]
PngFile(d) == [kind |-> "png", data |-> d, ok |-> FALSE, keys |-> {}, visits |-> <<>>]
JsonFile(keys, vs) == [kind |-> "json", data |-> 0, ok |-> TRUE, keys |-> keys, visits |-> vs]
BadJsonFile == [kind |-> "json", data |-> 0, ok |-> FALSE, keys |-> {}, visits |-> <<>>]

\* An HTML document: its img references in document order, the map blocks
\* appended to its body, and how many style blocks, wrappers and viewport
\* metas it holds.
Page(imgs) ==
    [exists |-> TRUE, head |-> TRUE, body |-> TRUE, imgs |-> imgs, maps |-> <<>>,
     styles |-> 0, wraps |-> 0, viewport |-> FALSE]

NoPage ==
    [exists |-> FALSE, head |-> FALSE, body |-> FALSE, imgs |-> <<>>, maps |-> <<>>,
     styles |-> 0, wraps |-> 0, viewport |-> FALSE]

\* f with x mapped to v (a file written, a dict key set)
Put(f, x, v) == [y \in DOMAIN f \cup {x} |-> IF y = x THEN v ELSE f[y]]

EmptyMap == [x \in {} |-> 0]

-----------------------------------------------------------------------------
(* 2. convert_heic_to_png *)

\* Image.open(heic_file) raises on bytes it cannot decode
CanDecode(file) == file.kind = "heic" /\ file.data # 0

\* img.save(png_file, format="PNG")
Transcode(file) == PngFile(file.data)

AlwaysConvert(res, heic_file) == TRUE

\* line 40, negated: the file is converted only when no PNG of its name exists
NeedsConvert(res, heic_file) == WithSuffix(heic_file, DotPng) \notin DOMAIN res

-----------------------------------------------------------------------------
(* 4. process_entries: the loop over the img elements of one page *)

KeepCaseHeic(src) == EndsWith(src, DotHeic)

\* line 106
IsHeicSrc(src) == EndsWith(Lower(src), DotHeic)

\* line 110
RewriteSrc(src) == DropLast(src, 5) \o DotPng

\* lines 113-114
JsonName(src) == Replace(PathName(src), DotHeic, DotJson)

\* json.loads(json_path.read_text(encoding="utf-8")) followed by data.get:
\* raises unless the file holds a JSON object
LoadRaises(file) == ~(file.kind = "json" /\ file.ok)

\* data.get("visits", [])
DataVisits(file) == IF "visits" \in file.keys THEN file.visits ELSE <<>>

ForgetOnError(acc, json_name) ==
    [acc EXCEPT !.visits = <<>>, !.log = Append(@, json_name)]

\* lines 123-124: the visits gathered so far stay, the warning is printed
OnSidecarError(acc, json_name) == [acc EXCEPT !.log = Append(@, json_name)]

\* lines 104-124 for one img; acc = [imgs, visits, log]
ScanImg(acc, src, res) ==
    IF ~IsHeicSrc(src) THEN [acc EXCEPT !.imgs = Append(@, src)]
    ELSE LET out == [acc EXCEPT !.imgs = Append(@, RewriteSrc(src))]
             json_name == JsonName(src)
         IN  IF json_name \notin DOMAIN res THEN out
             ELSE IF LoadRaises(res[json_name]) THEN OnSidecarError(out, json_name)
             ELSE [out EXCEPT !.visits = @ \o DataVisits(res[json_name])]

\* lines 98-124: the loop over soup.find_all("img")
RECURSIVE ScanImgs(_, _, _)
ScanImgs(acc, imgs, res) ==
    IF imgs = <<>> THEN acc
    ELSE ScanImgs(ScanImg(acc, Head(imgs), res), Tail(imgs), res)

KeepQuotes(text) == text

\* str.replace('"', "'")
ReplaceQuotes(text) == Replace(text, <<"\"">>, <<"'">>)

\* lines 137-139 and 316-319: the popup text of a visit
Popup(v) ==
    ReplaceQuotes(<<"<", "b", ">">> \o Get(v, "placeName", <<>>)
                  \o <<"<", "/", "b", ">", "<", "b", "r", ">", "<", "i", ">">>
                  \o Get(v, "city", <<>>) \o <<"<", "/", "i", ">">>)

\* lines 140-142: L.marker([lat,lon]).addTo(map).bindPopup("popup");
EntryMarker(v) ==
    [lat |-> v.latitude, lon |-> v.longitude, popup |-> Popup(v), color |-> ""]

\* line 143
BoundsItem(v) == <<v.latitude, v.longitude>>

\* lines 130-161: the block appended to the body
EntryMapBlock(stem, visits) ==
    [id |-> <<"m", "a", "p", "_">> \o stem,
     markers |-> [i \in 1..Len(visits) |-> EntryMarker(visits[i])],
     bounds |-> [i \in 1..Len(visits) |-> BoundsItem(visits[i])],
     legend |-> <<>>]

AnyVisits(visits) == TRUE

\* line 129: `if visits:`
HasVisits(visits) == visits # <<>>

\* lines 98-124 on one page: [imgs, visits, log]
Scan(page, res) ==
    ScanImgs([imgs |-> <<>>, visits |-> <<>>, log |-> <<>>], page.imgs, res)

\* lines 96-242 for one entry file: the page written back
ProcessedPage(name, page, res) ==
    LET scan == Scan(page, res)
        withMap ==
            IF HasVisits(scan.visits) /\ page.body
            THEN Append(page.maps, EntryMapBlock(PathStem(name), scan.visits))
            ELSE page.maps
    IN  [page EXCEPT !.imgs = scan.imgs,
                     !.maps = withMap,
                     !.styles = IF page.head THEN @ + 1 ELSE @,
                     !.wraps = @ + 1]

-----------------------------------------------------------------------------
(* update_index_map_clickable *)

\* lines 257-273
colors ==
    <<"red", "blue", "green", "orange", "purple", "darkred", "cadetblue",
      "darkgreen", "darkblue", "magenta", "lime", "orangered", "lightgray",
      "beige", "black">>

\* line 280
DateStr(entry_file) == SplitFirst(PathStem(entry_file), "_")

SkipFirstColor(d2c) == colors[((Cardinality(DOMAIN d2c) + 1) % Len(colors)) + 1]

\* line 282
NextColor(d2c) == colors[(Cardinality(DOMAIN d2c) % Len(colors)) + 1]

\* lines 300-301
Tag(visit, color, date_str) ==
    [visit EXCEPT !.keys = @ \cup {"_color", "_date"},
                  !._color = color, !._date = date_str]

\* lines 291-304 for one img: the visits it adds and the warning it prints
IndexImg(src, res, color, date_str) ==
    LET filename == Replace(PathName(src), DotPng, DotJson)
        none == [visits |-> <<>>, log |-> <<>>]
    IN  IF ~EndsWith(Lower(src), DotPng) THEN none
        ELSE IF filename \notin DOMAIN res THEN none
        ELSE IF LoadRaises(res[filename]) THEN [none EXCEPT !.log = <<filename>>]
        ELSE LET vs == DataVisits(res[filename])
             IN  [none EXCEPT !.visits =
                      [i \in 1..Len(vs) |-> Tag(vs[i], color, date_str)]]

\* lines 290-304: the loop over entry_soup.find_all("img")
RECURSIVE IndexImgs(_, _, _, _)
IndexImgs(imgs, res, color, date_str) ==
    IF imgs = <<>> THEN [visits |-> <<>>, log |-> <<>>]
    ELSE LET h == IndexImg(Head(imgs), res, color, date_str)
             t == IndexImgs(Tail(imgs), res, color, date_str)
         IN  [visits |-> h.visits \o t.visits, log |-> h.log \o t.log]

\* lines 314-326: the circle marker of a tagged visit
IndexMarker(v) ==
    [lat |-> v.latitude, lon |-> v.longitude, popup |-> Popup(v),
     color |-> Get(v, "_color", "blue")]

\* lines 310-384: the block appended to the body of index.html
IndexMapBlock(visits, dates, d2c) ==
    [id |-> <<"m", "a", "p", "_">>,
     markers |-> [i \in 1..Len(visits) |-> IndexMarker(visits[i])],
     bounds |-> [i \in 1..Len(visits) |-> BoundsItem(visits[i])],
     legend |-> [i \in 1..Len(dates) |-> [date |-> dates[i], color |-> d2c[dates[i]]]]]

-----------------------------------------------------------------------------
(* The generated script of index.html, lines 344-382 *)

\* L.latLngBounds(points), in tenths of a degree
LatLngBounds(points) ==
    LET lats == {points[i][1] : i \in 1..Len(points)}
        lons == {points[i][2] : i \in 1..Len(points)}
    IN  [s |-> 10 * Min(lats), w |-> 10 * Min(lons),
         n |-> 10 * Max(lats), e |-> 10 * Max(lons)]

\* bounds.pad(0.1), line 380
Pad(b) ==
    [s |-> b.s - (b.n - b.s) \div 10, w |-> b.w - (b.e - b.w) \div 10,
     n |-> b.n + (b.n - b.s) \div 10, e |-> b.e + (b.e - b.w) \div 10]

\* L.featureGroup(visibleMarkers).getBounds(): circle markers extend it by their point
GroupBounds(ms, shown) ==
    LET lats == {ms[i].lat : i \in shown}
        lons == {ms[i].lon : i \in shown}
    IN  [s |-> 10 * Min(lats), w |-> 10 * Min(lons),
         n |-> 10 * Max(lats), e |-> 10 * Max(lons)]

KeepOthers(ms, color) == 1..Len(ms)

\* lines 368-375: the markers left on the map by a filter
Filtered(ms, color) == {i \in 1..Len(ms) : ms[i].color = color}

-----------------------------------------------------------------------------
(* The exports the model runs on *)

MaxImgs == 2
MaxRuns == 2
MaxDates == 16
MaxMarkers == 3

aHeic == <<"a">> \o DotHeic
upperHeic == <<"A", ".", "H", "E", "I", "C">>
bHeic == <<"b">> \o DotHeic
aPng == <<"a">> \o DotPng
aJson == <<"a">> \o DotJson
upperJson == <<"A">> \o DotJson
bJson == <<"b">> \o DotJson

\* img references: through a directory, with an upper-case suffix, an image
\* that is a PNG in the export, a second HEIC image
Srcs == {<<"r", "/">> \o aHeic, upperHeic, aPng, bHeic}

V1 == Visit({"latitude", "longitude", "placeName", "city"}, 10, 20, <<"C">>, <<"R">>)
V2 == Visit({"latitude", "longitude", "placeName"}, 30, 40, <<"\"", "a", "\"">>, <<>>)
V3 == Visit({"latitude", "longitude", "city"}, 10, 60, <<>>, <<"\"">>)

SeqsUpTo(S, n) == UNION {[1..k -> S] : k \in 0..n}

entry1 == <<"1", "_", "a">> \o DotHtml
entry2 == <<"2", "_", "b">> \o DotHtml

ExportResources ==
    {[n \in {aHeic, upperHeic, bHeic, upperJson, bJson} \cup png \cup json |->
         CASE n = aHeic -> a
           [] n = upperHeic -> HeicFile(2)
           [] n = bHeic -> HeicFile(3)
           [] n = aPng -> PngFile(9)
           [] n = aJson -> j
           [] n = upperJson -> JsonFile({"visits"}, <<V2>>)
           [] n = bJson -> JsonFile({"visits"}, <<V3>>)] :
       a \in {HeicFile(1), HeicFile(0)},
       png \in {{}, {aPng}},
       json \in {{}, {aJson}},
       j \in {BadJsonFile, JsonFile({}, <<>>), JsonFile({"visits"}, <<>>),
              JsonFile({"visits"}, <<V1, V2>>)}}

ExportEntries ==
    {[n \in {entry1} \cup second |->
         IF n = entry1 THEN Page(imgs) ELSE Page(<<bHeic>>)] :
       imgs \in SeqsUpTo(Srcs, MaxImgs), second \in {{}, {entry2}}}

Exports ==
    [resources : ExportResources, entries : ExportEntries,
     index : {NoPage, Page(<<>>)}]

PyIdle ==
    /\ heicTodo = {}
    /\ entryTodo = {}
    /\ idxQueue = <<>>
    /\ date_to_color = EmptyMap
    /\ date_list = <<>>
    /\ all_visits = <<>>
    /\ log = <<>>
    /\ opened = {}
    /\ visitsOf = EmptyMap
    /\ indexedOf = EmptyMap

NoView == [s |-> 0, w |-> 0, n |-> 0, e |-> 0]

JsIdle ==
    /\ markers = <<>>
    /\ onMap = {}
    /\ activeColor = "null"
    /\ view = NoView

\* The script is started in an export that has no Journal_PNG beside it.
Init ==
    /\ export \in Exports
    /\ dstExists = FALSE
    /\ resources = EmptyMap
    /\ entries = EmptyMap
    /\ index = NoPage
    /\ pc = "copy_export"
    /\ run = 1
    /\ PyIdle
    /\ JsIdle

-----------------------------------------------------------------------------
(* __main__, lines 596-604 *)

\* copy_export, lines 24-30; then the glob of line 37
CopyExport ==
    /\ pc = "copy_export"
    /\ IF dstExists
       THEN UNCHANGED <<dstExists, resources, entries, index>>
       ELSE /\ dstExists' = TRUE
            /\ resources' = export.resources
            /\ entries' = export.entries
            /\ index' = export.index
    /\ heicTodo' = Glob(DOMAIN resources', DotHeic)
    /\ pc' = "convert_heic_to_png"
    /\ UNCHANGED <<export, run, entryTodo, idxQueue, date_to_color, date_list,
                   all_visits, log, opened, visitsOf, indexedOf, jsVars>>

\* convert_heic_to_png, lines 38-45, for one file of the glob
ConvertFile ==
    /\ pc = "convert_heic_to_png"
    /\ \E heic_file \in heicTodo :
         IF ~NeedsConvert(resources, heic_file)
         THEN /\ heicTodo' = heicTodo \ {heic_file}
              /\ UNCHANGED <<export, dstExists, resources, entries, index, pc,
                             run, entryTodo, idxQueue, date_to_color, date_list,
                             all_visits, log, opened, visitsOf, indexedOf>>
         ELSE IF ~CanDecode(resources[heic_file])
         THEN /\ pc' = "aborted"
              /\ heicTodo' = heicTodo \ {heic_file}
              /\ opened' = opened \cup {heic_file}
              /\ UNCHANGED <<export, dstExists, resources, entries, index, run,
                             entryTodo, idxQueue, date_to_color, date_list,
                             all_visits, log, visitsOf, indexedOf>>
         ELSE /\ resources' = Put(resources, WithSuffix(heic_file, DotPng),
                                  Transcode(resources[heic_file]))
              /\ heicTodo' = heicTodo \ {heic_file}
              /\ opened' = opened \cup {heic_file}
              /\ UNCHANGED <<export, dstExists, entries, index, pc, run,
                             entryTodo, idxQueue, date_to_color, date_list,
                             all_visits, log, visitsOf, indexedOf>>
    /\ UNCHANGED jsVars

\* the glob of convert_heic_to_png is exhausted; the glob of line 93
ConvertReturn ==
    /\ pc = "convert_heic_to_png"
    /\ heicTodo = {}
    /\ pc' = "process_entries"
    /\ entryTodo' = Glob(DOMAIN entries, DotHtml)
    /\ UNCHANGED <<export, dstExists, resources, entries, index, run, heicTodo,
                   idxQueue, date_to_color, date_list, all_visits, log, opened,
                   visitsOf, indexedOf, jsVars>>

\* process_entries, lines 94-243, for one file of the glob
ProcessEntry ==
    /\ pc = "process_entries"
    /\ \E entry_file \in entryTodo :
         LET page == entries[entry_file]
             scan == Scan(page, resources)
         IN  IF ~page.body
             THEN /\ pc' = "aborted"
                  /\ log' = log \o scan.log
                  /\ UNCHANGED <<entries, entryTodo, visitsOf>>
             ELSE /\ entries' = Put(entries, entry_file,
                                    ProcessedPage(entry_file, page, resources))
                  /\ entryTodo' = entryTodo \ {entry_file}
                  /\ visitsOf' = Put(visitsOf, entry_file, scan.visits)
                  /\ log' = log \o scan.log
                  /\ pc' = pc
    /\ UNCHANGED <<export, dstExists, resources, index, run, heicTodo, idxQueue,
                   date_to_color, date_list, all_visits, opened, indexedOf, jsVars>>

\* the glob of process_entries is exhausted
ProcessReturn ==
    /\ pc = "process_entries"
    /\ entryTodo = {}
    /\ pc' = "update_index_map_clickable"
    /\ UNCHANGED <<export, dstExists, resources, entries, index, run, heicTodo,
                   entryTodo, idxQueue, date_to_color, date_list, all_visits,
                   log, opened, visitsOf, indexedOf, jsVars>>

\* update_index_map_clickable, lines 247-279
IndexBegin ==
    /\ pc = "update_index_map_clickable"
    /\ IF ~index.exists
       THEN /\ pc' = "beautify_index_html"
            /\ UNCHANGED <<idxQueue, date_to_color, date_list, all_visits>>
       ELSE /\ pc' = "index_loop"
            /\ idxQueue' = Sorted(Glob(DOMAIN entries, DotHtml))
            /\ date_to_color' = EmptyMap
            /\ date_list' = <<>>
            /\ all_visits' = <<>>
    /\ UNCHANGED <<export, dstExists, resources, entries, index, run, heicTodo,
                   entryTodo, log, opened, visitsOf, indexedOf, jsVars>>

\* update_index_map_clickable, lines 280-304, for one entry file
IndexEntry ==
    /\ pc = "index_loop"
    /\ idxQueue # <<>>
    /\ LET entry_file == Head(idxQueue)
           date_str == DateStr(entry_file)
           d2c == IF date_str \in DOMAIN date_to_color THEN date_to_color
                  ELSE Put(date_to_color, date_str, NextColor(date_to_color))
           found == IndexImgs(entries[entry_file].imgs, resources,
                              d2c[date_str], date_str)
       IN  /\ date_to_color' = d2c
           /\ date_list' = IF date_str \in DOMAIN date_to_color THEN date_list
                           ELSE Append(date_list, date_str)
           /\ all_visits' = all_visits \o found.visits
           /\ indexedOf' = Put(indexedOf, entry_file, found.visits)
           /\ log' = log \o found.log
    /\ idxQueue' = Tail(idxQueue)
    /\ UNCHANGED <<export, dstExists, resources, entries, index, pc, run,
                   heicTodo, entryTodo, opened, visitsOf, jsVars>>

\* update_index_map_clickable, lines 306-388
IndexFinish ==
    /\ pc = "index_loop"
    /\ idxQueue = <<>>
    /\ index' = IF all_visits = <<>> \/ ~index.body THEN index
                ELSE [index EXCEPT !.maps =
                         Append(@, IndexMapBlock(all_visits, date_list, date_to_color))]
    /\ pc' = IF all_visits # <<>> /\ ~index.body THEN "aborted"
             ELSE "beautify_index_html"
    /\ UNCHANGED <<export, dstExists, resources, entries, run, heicTodo,
                   entryTodo, idxQueue, date_to_color, date_list, all_visits,
                   log, opened, visitsOf, indexedOf, jsVars>>

\* beautify_index_html, lines 391-490
BeautifyIndex ==
    /\ pc = "beautify_index_html"
    /\ index' = IF ~index.exists \/ ~index.head \/ ~index.body THEN index
                ELSE [index EXCEPT !.viewport = TRUE, !.styles = @ + 1,
                                   !.wraps = @ + 1]
    /\ pc' = IF index.exists /\ (~index.head \/ ~index.body) THEN "aborted"
             ELSE "clean_empty_paragraphs_index"
    /\ UNCHANGED <<export, dstExists, resources, entries, run, heicTodo,
                   entryTodo, idxQueue, date_to_color, date_list, all_visits,
                   log, opened, visitsOf, indexedOf, jsVars>>

\* clean_empty_paragraphs_index, lines 493-503: no img, map or style is a paragraph
CleanIndex ==
    /\ pc = "clean_empty_paragraphs_index"
    /\ pc' = "clean_empty_paragraphs_entries"
    /\ UNCHANGED <<export, dstExists, resources, entries, index, run, heicTodo,
                   entryTodo, idxQueue, date_to_color, date_list, all_visits,
                   log, opened, visitsOf, indexedOf, jsVars>>

\* clean_empty_paragraphs_entries, lines 506-513
CleanEntries ==
    /\ pc = "clean_empty_paragraphs_entries"
    /\ pc' = "beautify_entries"
    /\ UNCHANGED <<export, dstExists, resources, entries, index, run, heicTodo,
                   entryTodo, idxQueue, date_to_color, date_list, all_visits,
                   log, opened, visitsOf, indexedOf, jsVars>>

\* beautify_entries, lines 527-590
BeautifyEntries ==
    /\ pc = "beautify_entries"
    /\ IF \E n \in DOMAIN entries : ~entries[n].head
       THEN /\ pc' = "aborted"
            /\ UNCHANGED entries
       ELSE /\ pc' = "done"
            /\ entries' = [n \in DOMAIN entries |->
                             [entries[n] EXCEPT !.viewport = TRUE, !.styles = @ + 1]]
    /\ UNCHANGED <<export, dstExists, resources, index, run, heicTodo,
                   entryTodo, idxQueue, date_to_color, date_list, all_visits,
                   log, opened, visitsOf, indexedOf, jsVars>>

\* the script is started again beside the Journal_PNG it left
Rerun ==
    /\ pc = "done"
    /\ run < MaxRuns
    /\ run' = run + 1
    /\ pc' = "copy_export"
    /\ heicTodo' = {}
    /\ entryTodo' = {}
    /\ idxQueue' = <<>>
    /\ date_to_color' = EmptyMap
    /\ date_list' = <<>>
    /\ all_visits' = <<>>
    /\ log' = <<>>
    /\ opened' = {}
    /\ visitsOf' = EmptyMap
    /\ indexedOf' = EmptyMap
    /\ UNCHANGED <<export, dstExists, resources, entries, index, jsVars>>

Next ==
    \/ CopyExport
    \/ ConvertFile
    \/ ConvertReturn
    \/ ProcessEntry
    \/ ProcessReturn
    \/ IndexBegin
    \/ IndexEntry
    \/ IndexFinish
    \/ BeautifyIndex
    \/ CleanIndex
    \/ CleanEntries
    \/ BeautifyEntries
    \/ Rerun

Spec == Init /\ [][Next]_vars

-----------------------------------------------------------------------------
(* Index aggregation over many days: the state process_entries leaves for   *)
(* an export of up to MaxDates days, one of them with two entries.          *)

Digit(k) == Ascii[Ord("0") + k]

DayName(k, tail) == <<Digit(k \div 10), Digit(k % 10), "_">> \o tail \o DotHtml

DayResources ==
    [n \in {bHeic, bJson} |->
        IF n = bHeic THEN HeicFile(3) ELSE JsonFile({"visits"}, <<V3>>)]

DayExport(days, twice) ==
    [resources |-> DayResources,
     entries |-> [n \in {DayName(k, <<"a">>) : k \in 1..days}
                        \cup {DayName(k, <<"b">>) : k \in twice} |-> Page(<<bHeic>>)],
     index |-> Page(<<>>)]

InitPalette ==
    /\ \E days \in 1..MaxDates : \E twice \in {{}} \cup {{k} : k \in 1..days} :
         export = DayExport(days, twice)
    /\ dstExists = TRUE
    /\ resources = Put(export.resources, WithSuffix(bHeic, DotPng),
                       Transcode(export.resources[bHeic]))
    /\ entries = [n \in DOMAIN export.entries |->
                     ProcessedPage(n, export.entries[n], resources)]
    /\ index = export.index
    /\ pc = "update_index_map_clickable"
    /\ run = 1
    /\ heicTodo = {}
    /\ entryTodo = {}
    /\ idxQueue = <<>>
    /\ date_to_color = EmptyMap
    /\ date_list = <<>>
    /\ all_visits = <<>>
    /\ log = <<>>
    /\ opened = {bHeic}
    /\ visitsOf = [n \in DOMAIN export.entries |->
                      Scan(export.entries[n], resources).visits]
    /\ indexedOf = EmptyMap
    /\ JsIdle

NextPalette ==
    \/ IndexBegin
    \/ IndexEntry
    \/ IndexFinish

SpecPalette == InitPalette /\ [][NextPalette]_vars

-----------------------------------------------------------------------------
(* The browser on an index.html the script has written: three days, the     *)
(* third without visits, and up to MaxMarkers visits of the first two.      *)

day1 == <<"0", "1">>
day2 == <<"0", "2">>
day3 == <<"0", "3">>

LegendDays == <<day1, day2, day3>>

LegendColors == [d \in {day1, day2, day3} |->
                    IF d = day1 THEN colors[1] ELSE IF d = day2 THEN colors[2] ELSE colors[3]]

TaggedVisits ==
    {Tag(Visit({"latitude", "longitude"}, lat, lon, <<>>, <<>>), LegendColors[d], d) :
       lat \in {10, 20}, lon \in {10, 30}, d \in {day1, day2}}

InitToggle ==
    /\ export = [resources |-> EmptyMap, entries |-> EmptyMap, index |-> Page(<<>>)]
    /\ dstExists = TRUE
    /\ resources = EmptyMap
    /\ entries = EmptyMap
    /\ \E vs \in SeqsUpTo(TaggedVisits, MaxMarkers) :
         /\ vs # <<>>
         /\ all_visits = vs
         /\ index = [Page(<<>>) EXCEPT
                        !.maps = <<IndexMapBlock(vs, LegendDays, LegendColors)>>,
                        !.viewport = TRUE, !.styles = 1, !.wraps = 1]
    /\ pc = "done"
    /\ run = 1
    /\ heicTodo = {}
    /\ entryTodo = {}
    /\ idxQueue = <<>>
    /\ date_to_color = LegendColors
    /\ date_list = LegendDays
    /\ log = <<>>
    /\ opened = {}
    /\ visitsOf = EmptyMap
    /\ indexedOf = EmptyMap
    /\ JsIdle

\* the script of the page runs, lines 344-357
RunScript ==
    /\ pc = "done"
    /\ markers = <<>>
    /\ index.maps # <<>>
    /\ LET block == index.maps[1]
       IN  /\ markers' = block.markers
           /\ onMap' = 1..Len(block.markers)
           /\ view' = LatLngBounds(block.bounds)
    /\ activeColor' = "null"
    /\ UNCHANGED pyVars

\* a click on a legend entry: toggleMarkers(color), lines 358-382
ToggleMarkers ==
    /\ markers # <<>>
    /\ \E k \in 1..Len(index.maps[1].legend) :
         LET color == index.maps[1].legend[k].color
             visibleMarkers == IF activeColor = color THEN 1..Len(markers)
                               ELSE Filtered(markers, color)
         IN  /\ onMap' = visibleMarkers
             /\ activeColor' = IF activeColor = color THEN "null" ELSE color
             /\ view' = IF visibleMarkers # {}
                        THEN Pad(GroupBounds(markers, visibleMarkers))
                        ELSE view
    /\ UNCHANGED <<markers, pyVars>>

NextToggle ==
    \/ RunScript
    \/ ToggleMarkers

SpecToggle == InitToggle /\ [][NextToggle]_vars

-----------------------------------------------------------------------------
(* The claims *)

\* the entry file a step of process_entries has just written, if any
JustProcessed == {e \in DOMAIN entries : e \notin DOMAIN visitsOf /\ e \in DOMAIN visitsOf'}

\* what C1 asks of one img reference
C1_Expected(src) ==
    LET n == Len(src)
    IN  IF n >= 5 /\ Lower(SubSeq(src, n - 4, n)) = <<".", "h", "e", "i", "c">>
        THEN SubSeq(src, 1, n - 5) \o <<".", "p", "n", "g">>
        ELSE src

\* C1: the step of process_entries that handles an entry page leaves every
\* img reference that ends in ".heic" (in any case) with its last five
\* characters replaced by ".png", every other img reference as it was, and
\* every other page untouched.
C1_RewriteExact ==
    [][\A e \in JustProcessed :
          /\ Len(entries'[e].imgs) = Len(entries[e].imgs)
          /\ \A i \in 1..Len(entries[e].imgs) :
                entries'[e].imgs[i] = C1_Expected(entries[e].imgs[i])
          /\ \A f \in DOMAIN entries \ {e} : entries'[f] = entries[f]]_vars

\* C1's case: a page written in the first run whose upper-case ".HEIC"
\* reference was rewritten and whose ".png" reference was kept
C1_Witness ==
    /\ run = 1
    /\ \E e \in DOMAIN visitsOf : \E i, j \in 1..Len(entries[e].imgs) :
          /\ export.entries[e].imgs[i] = upperHeic
          /\ entries[e].imgs[i] = <<"A", ".", "p", "n", "g">>
          /\ export.entries[e].imgs[j] = aPng
          /\ entries[e].imgs[j] = aPng

\* C4: the map blocks of an entry page change only in the step of
\* process_entries that handles the page, and only when the visit list
\* accumulated for it is non-empty; a page with zero visits keeps the map
\* blocks it had (none, in a fresh copy of the export).
C4_MapOnlyWithVisits ==
    [][\A e \in DOMAIN entries :
          entries'[e].maps # entries[e].maps =>
              e \in JustProcessed /\ visitsOf'[e] # <<>>]_vars

\* C4's case: a written page with a source-suffix image whose sidecar could
\* not be parsed, zero visits and no map block
C4_Witness ==
    \E e \in DOMAIN visitsOf :
        /\ visitsOf[e] = <<>>
        /\ entries[e].maps = <<>>
        /\ entries[e].wraps > 0
        /\ log # <<>>

\* C8: no step changes a PNG that exists in the resources directory, and a
\* source image is opened only when no PNG of its base name exists, whatever
\* the source holds.
C8_PngUntouched ==
    [][/\ \A n \in DOMAIN resources :
             resources[n].kind = "png" => n \in DOMAIN resources' /\ resources'[n] = resources[n]
       /\ \A f \in opened' \ opened :
             (SubSeq(f, 1, Len(f) - 5) \o <<".", "p", "n", "g">>) \notin DOMAIN resources]_vars

\* C8's case: a second run has transcoded nothing, over an undecodable source
\* image whose PNG was in the export and is still what it was
C8_Witness ==
    /\ run = 2
    /\ pc = "process_entries"
    /\ opened = {}
    /\ ~CanDecode(resources[aHeic])
    /\ resources[aPng] = export.resources[aPng]

\* the marker statements of every map block written so far
C9_MarkersOf(page) ==
    UNION {{page.maps[k].markers[i] : i \in 1..Len(page.maps[k].markers)} :
             k \in 1..Len(page.maps)}

C9_AllMarkers == C9_MarkersOf(index) \cup UNION {C9_MarkersOf(entries[e]) : e \in DOMAIN entries}

\* C9: no popup text of a marker statement, in an entry map or in the index
\* map, holds a double-quote character.
C9_NoDoubleQuote ==
    \A m \in C9_AllMarkers : \A i \in 1..Len(m.popup) : m.popup[i] # "\""

\* C9's case: both an entry map and the index map hold the marker of a visit
\* whose place name is "a" in double quotes, written with single quotes
C9_Witness ==
    /\ \E e \in DOMAIN entries : \E k \in 1..Len(entries[e].maps) :
          \E i \in 1..Len(entries[e].maps[k].markers) :
              SubSeq(entries[e].maps[k].markers[i].popup, 4, 6) = <<"'", "a", "'">>
    /\ \E k \in 1..Len(index.maps) : \E i \in 1..Len(index.maps[k].markers) :
          SubSeq(index.maps[k].markers[i].popup, 4, 6) = <<"'", "a", "'">>


\* a tagged visit without the tags of lines 300-301
C2_Untag(v) == [v EXCEPT !.keys = @ \ {"_color", "_date"}, !._color = "", !._date = <<>>]

\* C2: the visits index aggregation collects from an entry are the visits
\* process_entries collected for that entry.
C2_SameVisits ==
    \A e \in DOMAIN indexedOf \cap DOMAIN visitsOf :
        [i \in 1..Len(indexedOf[e]) |-> C2_Untag(indexedOf[e][i])] = visitsOf[e]

\* the sidecar of an img reference: the JSON file of the same base name
C3_SidecarOf(src) == SubSeq(PathName(src), 1, Len(PathName(src)) - 5) \o <<".", "j", "s", "o", "n">>

\* the visit records the sidecars of a page's source-suffix images hold,
\* images in document order, visits in list order
RECURSIVE C3_SidecarVisits(_, _)
C3_SidecarVisits(imgs, res) ==
    IF imgs = <<>> THEN <<>>
    ELSE LET src == Head(imgs)
             here == IF /\ C1_Expected(src) # src
                        /\ C3_SidecarOf(src) \in DOMAIN res
                        /\ res[C3_SidecarOf(src)].kind = "json"
                        /\ res[C3_SidecarOf(src)].ok
                        /\ "visits" \in res[C3_SidecarOf(src)].keys
                     THEN res[C3_SidecarOf(src)].visits
                     ELSE <<>>
         IN  here \o C3_SidecarVisits(Tail(imgs), res)

\* C3: a page of the export whose source-suffix images' sidecars hold
\* N >= 1 visits is written with one map block of exactly N markers, at the
\* visits' coordinates in accumulation order, and the same N coordinates as
\* the bounds list.
C3_MarkersAreSidecarVisits ==
    \A e \in DOMAIN visitsOf :
        LET want == C3_SidecarVisits(export.entries[e].imgs, export.resources)
        IN  run = 1 /\ want # <<>> =>
              /\ Len(entries[e].maps) = 1
              /\ Len(entries[e].maps[1].markers) = Len(want)
              /\ \A i \in 1..Len(want) :
                    /\ entries[e].maps[1].markers[i].lat = want[i].latitude
                    /\ entries[e].maps[1].markers[i].lon = want[i].longitude
              /\ entries[e].maps[1].bounds =
                    [i \in 1..Len(want) |-> <<want[i].latitude, want[i].longitude>>]

\* the file a step of process_entries reads as the sidecar of a reference
C7_Failing(src, res) ==
    /\ IsHeicSrc(src)
    /\ JsonName(src) \in DOMAIN res
    /\ LoadRaises(res[JsonName(src)])

\* the visits of the files read as sidecars that could be parsed
RECURSIVE C7_Readable(_, _)
C7_Readable(imgs, res) ==
    IF imgs = <<>> THEN <<>>
    ELSE LET src == Head(imgs)
             here == IF /\ IsHeicSrc(src)
                        /\ JsonName(src) \in DOMAIN res
                        /\ ~LoadRaises(res[JsonName(src)])
                        /\ "visits" \in res[JsonName(src)].keys
                     THEN res[JsonName(src)].visits
                     ELSE <<>>
         IN  here \o C7_Readable(Tail(imgs), res)

C10_AfterEntries ==
    {"update_index_map_clickable", "index_loop", "beautify_index_html",
     "clean_empty_paragraphs_index", "clean_empty_paragraphs_entries",
     "beautify_entries", "done"}

\* C10: once convert_heic_to_png and process_entries have run, every img
\* reference that was rewritten to ".png", and whose source image is in the
\* resources directory, names a PNG file of the resources directory.
C10_NoDanglingPng ==
    run = 1 /\ pc \in C10_AfterEntries =>
        \A e \in DOMAIN entries : \A i \in 1..Len(entries[e].imgs) :
            (/\ entries[e].imgs[i] # export.entries[e].imgs[i]
             /\ PathName(export.entries[e].imgs[i]) \in DOMAIN export.resources)
            => PathName(entries[e].imgs[i]) \in DOMAIN resources


\* the date prefix of an entry file: its name before the first underscore
C5_Prefix(e) ==
    LET stem == SubSeq(e, 1, Len(e) - 5)
        cut == {i \in 1..Len(stem) : stem[i] = "_"}
    IN  IF cut = {} THEN stem ELSE SubSeq(stem, 1, Min(cut) - 1)

\* e is f, or comes before it in filename order
C5_UpTo(e, f) == e = f \/ StrLess(e, f)

\* N for an entry: how many distinct date prefixes the sorted entries hold up
\* to the first entry that has this entry's prefix
C5_Nth(e) ==
    LET first == CHOOSE f \in DOMAIN entries :
                     /\ C5_Prefix(f) = C5_Prefix(e)
                     /\ \A g \in DOMAIN entries : C5_Prefix(g) = C5_Prefix(e) => C5_UpTo(f, g)
    IN  Cardinality({C5_Prefix(g) : g \in {h \in DOMAIN entries : C5_UpTo(h, first)}})

\* C5: index aggregation visits the entry files in filename order; the colour
\* of a visited entry's date prefix is palette[(N-1) mod palette_size] for the
\* Nth distinct prefix, entries of one prefix share it, the legend lists the
\* prefixes in that order, and the visits of the entry carry that colour.
C5_ColorOfNthDate ==
    /\ \A e \in DOMAIN indexedOf : \A f \in DOMAIN entries :
          StrLess(f, e) => f \in DOMAIN indexedOf
    /\ DOMAIN date_to_color = {C5_Prefix(e) : e \in DOMAIN indexedOf}
    /\ \A e \in DOMAIN indexedOf :
          /\ date_to_color[C5_Prefix(e)] = colors[((C5_Nth(e) - 1) % 15) + 1]
          /\ date_list[C5_Nth(e)] = C5_Prefix(e)
          /\ \A i \in 1..Len(indexedOf[e]) :
                /\ indexedOf[e][i]._color = colors[((C5_Nth(e) - 1) % 15) + 1]
                /\ indexedOf[e][i]._date = C5_Prefix(e)
    /\ Len(date_list) = Cardinality(DOMAIN date_to_color)

\* C5's case: sixteen days were seen, one of them in two entries; the
\* sixteenth has the first colour of the palette again
C5_Witness ==
    /\ Len(date_list) = 16
    /\ Cardinality(DOMAIN indexedOf) = 17
    /\ date_to_color[date_list[16]] = "red"
    /\ date_to_color[date_list[15]] = "black"
    /\ \E i \in 1..Len(all_visits) : all_visits[i]._date = date_list[16] /\ all_visits[i]._color = "red"

\* the box around the markers of S, in tenths of a degree
C6_Box(S) ==
    [s |-> 10 * Min({markers[i].lat : i \in S}), w |-> 10 * Min({markers[i].lon : i \in S}),
     n |-> 10 * Max({markers[i].lat : i \in S}), e |-> 10 * Max({markers[i].lon : i \in S})]

\* a box widened on every side by a tenth of its extent
C6_Padded(b) ==
    [s |-> b.s - (b.n - b.s) \div 10, w |-> b.w - (b.e - b.w) \div 10,
     n |-> b.n + (b.n - b.s) \div 10, e |-> b.e + (b.e - b.w) \div 10]

C6_All == 1..Len(markers)

\* C6 as claimed: with a day filter on, exactly the markers of its colour are
\* shown and the view fits them; with no filter on, all markers are shown and
\* the view is the full bounds the map was fitted to at load.
C6_RestoresOriginalBounds ==
    markers # <<>> =>
        IF activeColor = "null"
        THEN onMap = C6_All /\ view = C6_Box(C6_All)
        ELSE /\ onMap = {i \in C6_All : markers[i].color = activeColor}
             /\ onMap # {} => view = C6_Padded(C6_Box(onMap))

\* C6 amended: a click that turns a day filter on leaves exactly the markers
\* of its colour on the map and, when there are any, fits the view to their
\* box padded by a tenth (with none, the view stays); the click that turns
\* the filter off puts all markers back and fits the view to the box of all
\* markers padded by a tenth.
C6_ToggleRefitsPadded ==
    [][activeColor' # activeColor =>
          IF activeColor' = "null"
          THEN onMap' = C6_All /\ view' = C6_Padded(C6_Box(C6_All))
          ELSE /\ onMap' = {i \in C6_All : markers[i].color = activeColor'}
               /\ view' = IF onMap' # {} THEN C6_Padded(C6_Box(onMap')) ELSE view]_vars

\* C6's case: a filter was turned on and off again; all markers are back and
\* the view is the padded box, which is not the bounds fitted at load
C6_Witness ==
    /\ markers # <<>>
    /\ activeColor = "null"
    /\ onMap = C6_All
    /\ view = C6_Padded(C6_Box(C6_All))
    /\ view # C6_Box(C6_All)

=============================================================================
